---- MODULE Spec2Model ----
(***************************************************************************)
(* Model of the event-broadcast hook module                                *)
(* (amplifier_module_hooks_event_broadcast/__init__.py): one               *)
(* EventBroadcaster, the hook registry and the capability registry of its  *)
(* coordinator as the test fixture provides them.                          *)
(*                                                                         *)
(* Strings on which the code does character work (event names, patterns)   *)
(* are sequences of one-character strings, so that rstrip("*"),            *)
(* startswith and "*" in e are computed character by character.            *)
(***************************************************************************)
EXTENDS Integers, Sequences, FiniteSets, TLC

VARIABLES
  config,               \* self.config: the mapping given to __init__
  events,               \* self.events
  event_patterns,       \* self.event_patterns
  exact_events,         \* self.exact_events
  capability_name,      \* self.capability_name
  _unregister_funcs,    \* self._unregister_funcs: the retained handles, in order
  registered_handlers,  \* hook registry of the coordinator: event -> list of entries
  capabilities,         \* capability registry of the coordinator: name -> delegate
  broadcast_calls,      \* every call a delegate has received, in order
  dispatched,           \* the matching events handed to the handler while a
                        \* delegate was registered, in order
  release_calls,        \* release_calls[h]: how often handle h's release was invoked
  leaked,               \* releases that raised and left their registration in place
  starts,               \* register_handlers() calls so far
  last                  \* what the last operation did

vars == << config, events, event_patterns, exact_events, capability_name,
           _unregister_funcs, registered_handlers, capabilities,
           broadcast_calls, dispatched, release_calls, leaked, starts, last >>

relay_config == << config, events, event_patterns, exact_events, capability_name >>

-----------------------------------------------------------------------------
(* Bounds of the model *)

\* register_handlers() calls explored on one relay
MaxStarts == 2

\* length of the delegate call log up to which events are dispatched
MaxCalls == 2

\* release operations that may raise in one unregister_handlers()
MaxFail == 1

\* how far into a loop of register or release calls a call may raise
MaxFailAt == 2

-----------------------------------------------------------------------------
(* Program constants *)

DEFAULT_EVENTS ==
  << <<"c","o","n","t","e","n","t","_","b","l","o","c","k",":","s","t","a","r","t">>,
     <<"c","o","n","t","e","n","t","_","b","l","o","c","k",":","d","e","l","t","a">>,
     <<"c","o","n","t","e","n","t","_","b","l","o","c","k",":","e","n","d">>,
     <<"t","o","o","l",":","p","r","e">>,
     <<"t","o","o","l",":","p","o","s","t">>,
     <<"t","o","o","l",":","e","r","r","o","r">>,
     <<"o","r","c","h","e","s","t","r","a","t","o","r",":","c","o","m","p","l","e","t","e">>,
     <<"p","r","o","m","p","t",":","s","u","b","m","i","t">>,
     <<"p","r","o","v","i","d","e","r",":","r","e","q","u","e","s","t">>,
     <<"s","e","s","s","i","o","n",":","s","t","a","r","t">>,
     <<"s","e","s","s","i","o","n",":","e","n","d">>,
     <<"e","r","r","o","r",":","t","o","o","l">>,
     <<"e","r","r","o","r",":","p","r","o","v","i","d","e","r">>,
     <<"e","r","r","o","r",":","o","r","c","h","e","s","t","r","a","t","i","o","n">>,
     <<"u","s","e","r",":","n","o","t","i","f","i","c","a","t","i","o","n">> >>

\* a suffix list with one more entry, "x"
WILDCARD_SUFFIXES_with_x ==
  << <<"s","t","a","r","t">>,
     <<"d","e","l","t","a">>,
     <<"e","n","d">>,
     <<"p","r","e">>,
     <<"p","o","s","t">>,
     <<"e","r","r","o","r">>,
     <<"c","o","m","p","l","e","t","e">>,
     <<"x">> >>

\* the suffix list of the wildcard expansion
WILDCARD_SUFFIXES ==
  << <<"s","t","a","r","t">>,
     <<"d","e","l","t","a">>,
     <<"e","n","d">>,
     <<"p","r","e">>,
     <<"p","o","s","t">>,
     <<"e","r","r","o","r">>,
     <<"c","o","m","p","l","e","t","e">> >>

\* f"event-broadcast:{event}"
NAME_TAG == <<"e","v","e","n","t","-","b","r","o","a","d","c","a","s","t",":">>

\* priority=1000
HOOK_PRIORITY == 1000

DEFAULT_CAPABILITY == "broadcast"

-----------------------------------------------------------------------------
(* Event names and payloads the environment uses *)

tool_pre == <<"t","o","o","l",":","p","r","e">>
tool_post == <<"t","o","o","l",":","p","o","s","t">>
tool_star == <<"t","o","o","l",":","*">>
tool_x == <<"t","o","o","l",":","x">>
session_start == <<"s","e","s","s","i","o","n",":","s","t","a","r","t">>
test_event == <<"t","e","s","t",":","e","v","e","n","t">>
a_star_b == <<"a","*","b">>
star_x == <<"*","x">>
a_star_star == <<"a","*","*">>
ax == <<"a","x">>
a_star_bpre == <<"a","*","b","p","r","e">>
star_xpre == <<"*","x","p","r","e">>
apre == <<"a","p","r","e">>
tool_colon == <<"t","o","o","l",":">>
tool == <<"t","o","o","l">>
star == <<"*">>

EventNames ==
  { tool_pre, tool_post, tool_x, tool_colon, tool, session_start, test_event,
    ax, apre, a_star_bpre, star_xpre, <<>> }

Payloads == { <<>>, << <<"tool_name", "bash">> >> }

\* A configuration mapping: each key may be absent.
Cfg(has_events, evs, has_cap, cap) ==
  [ has_events |-> has_events, events |-> evs,
    has_capability_name |-> has_cap, capability_name |-> cap ]

Configs ==
  { Cfg(FALSE, <<>>, FALSE, ""),
    Cfg(TRUE, <<tool_pre, tool_post>>, FALSE, ""),
    Cfg(TRUE, <<tool_star>>, FALSE, ""),
    Cfg(TRUE, <<tool_star, tool_pre>>, FALSE, ""),
    Cfg(TRUE, <<tool_star, session_start>>, FALSE, ""),
    Cfg(TRUE, <<a_star_b>>, FALSE, ""),
    Cfg(TRUE, <<star_x>>, FALSE, ""),
    Cfg(TRUE, <<a_star_star>>, FALSE, ""),
    Cfg(TRUE, <<star>>, FALSE, ""),
    Cfg(TRUE, <<>>, FALSE, ""),
    Cfg(TRUE, <<tool_pre, tool_pre>>, FALSE, ""),
    Cfg(TRUE, <<test_event>>, TRUE, "my_broadcast") }

CapabilityNames == { "broadcast", "my_broadcast" }

\* A delegate, by how it runs:
\*   sync      a plain function
\*   async     a coroutine function
\*   awaitable a plain callable whose call returns an awaitable
\* Whether one execution of it fails is the environment's choice at each call.
Delegate(id, kind) == [ id |-> id, kind |-> kind ]

None == Delegate(0, "None")

Delegates ==
  { Delegate(1, "sync"), Delegate(2, "async"), Delegate(3, "awaitable") }

-----------------------------------------------------------------------------
(* String helpers *)

\* "*" in e
HasStar(e) == \E i \in 1..Len(e) : e[i] = "*"

\* rstrip that removes one trailing "*" only
rstrip_one(s) ==
  IF Len(s) > 0 /\ s[Len(s)] = "*"
  THEN SubSeq(s, 1, Len(s) - 1)
  ELSE s

\* str.rstrip("*"): every trailing "*" removed
RECURSIVE rstrip_star(_)
rstrip_star(s) ==
  IF Len(s) > 0 /\ s[Len(s)] = "*"
  THEN rstrip_star(SubSeq(s, 1, Len(s) - 1))
  ELSE s

\* startswith with its operands exchanged
startswith_reversed(s, prefix) ==
  /\ Len(s) <= Len(prefix)
  /\ SubSeq(prefix, 1, Len(s)) = s

\* str.startswith
startswith(s, prefix) ==
  /\ Len(prefix) <= Len(s)
  /\ SubSeq(s, 1, Len(prefix)) = prefix

\* x in list
InList(x, list) == \E i \in 1..Len(list) : list[i] = x

-----------------------------------------------------------------------------
(* EventBroadcaster.__init__ *)

ConfigEvents(cfg) == IF cfg.has_events THEN cfg.events ELSE DEFAULT_EVENTS

PatternsOf(evs) == SelectSeq(evs, HasStar)

IsExact(e) == ~HasStar(e)

ExactOf(evs) == SelectSeq(evs, IsExact)

\* the capability name, the configuration ignored
ConfigCapabilityName_ignored(cfg) == DEFAULT_CAPABILITY

ConfigCapabilityName(cfg) ==
  IF cfg.has_capability_name THEN cfg.capability_name ELSE DEFAULT_CAPABILITY

NoOp ==
  [ op |-> "init", event |-> <<>>, data |-> <<>>, matched |-> FALSE,
    looked_up |-> FALSE, delegate |-> None, exec |-> "none",
    result |-> "none", raised |-> FALSE, runs |-> 0,
    released |-> <<>>, failed |-> {}, registered |-> 0 ]

\* the relay after EventBroadcaster(coordinator, cfg), on a fresh coordinator
Construct(cfg) ==
  /\ config = cfg
  /\ events = ConfigEvents(config)
  /\ event_patterns = PatternsOf(events)
  /\ exact_events = ExactOf(events)
  /\ capability_name = ConfigCapabilityName(config)
  /\ _unregister_funcs = <<>>
  /\ registered_handlers = [e \in {} |-> <<>>]
  /\ capabilities = [n \in CapabilityNames |-> None]
  /\ broadcast_calls = <<>>
  /\ dispatched = <<>>
  /\ release_calls = <<>>
  /\ leaked = 0
  /\ starts = 0
  /\ last = NoOp

-----------------------------------------------------------------------------
(* EventBroadcaster._matches_pattern *)

\* the loop over self.event_patterns, from its i-th pattern on
RECURSIVE MatchesFrom(_, _)
MatchesFrom(i, event) ==
  IF i > Len(event_patterns)
  THEN FALSE
  ELSE LET prefix == rstrip_star(event_patterns[i])
       IN  IF startswith(event, prefix)
           THEN TRUE
           ELSE MatchesFrom(i + 1, event)

_matches_pattern(event) ==
  IF InList(event, exact_events)
  THEN TRUE
  ELSE MatchesFrom(1, event)

\* a direct call of _matches_pattern, as the tests make
CallMatches(event) ==
  /\ last' = [NoOp EXCEPT !.op = "matches", !.event = event,
                          !.matched = _matches_pattern(event)]
  /\ UNCHANGED << relay_config, _unregister_funcs, registered_handlers,
                  capabilities, broadcast_calls, dispatched, release_calls, leaked, starts >>

-----------------------------------------------------------------------------
(* Capability registry of the coordinator *)

get_capability(name) == capabilities[name]

register_capability(name, value) ==
  /\ capabilities' = [capabilities EXCEPT ![name] = value]
  /\ last' = [NoOp EXCEPT !.op = "register_capability", !.delegate = value]
  /\ UNCHANGED << relay_config, _unregister_funcs, registered_handlers,
                  broadcast_calls, dispatched, release_calls, leaked, starts >>

-----------------------------------------------------------------------------
(* EventBroadcaster._broadcast_handler *)

iscoroutinefunction(broadcast) == broadcast.kind = "async"

Call(broadcast, event, data) ==
  [ delegate |-> broadcast.id, event |-> event, data |-> data ]

\* the try block calling the delegate with a fresh, empty payload
TryBroadcast_copy(broadcast, event, data, fails) ==
  [ calls |-> << Call(broadcast, event, <<>>) >>,
    exec |-> IF broadcast.kind = "awaitable" THEN "pending"
             ELSE IF fails THEN "failed" ELSE "resolved",
    exception |-> broadcast.kind # "awaitable" /\ fails ]

\* the try block calling the delegate in both branches of the sync/async test
TryBroadcast_twice(broadcast, event, data, fails) ==
  [ calls |-> << Call(broadcast, event, data), Call(broadcast, event, data) >>,
    exec |-> IF broadcast.kind = "awaitable" THEN "pending"
             ELSE IF fails THEN "failed" ELSE "resolved",
    exception |-> broadcast.kind # "awaitable" /\ fails ]

\* The body of the try block: the delegate is called once; a coroutine function
\* is awaited, anything else is called and its return value dropped.
\*   fails      whether this execution of the delegate fails
\*   exec       what has become of that execution when the block ends
\*   exception  whether the block ends by raising
TryBroadcast(broadcast, event, data, fails) ==
  IF iscoroutinefunction(broadcast)
  THEN \* await broadcast(event, data)
       [ calls |-> << Call(broadcast, event, data) >>,
         exec |-> IF fails THEN "failed" ELSE "resolved",
         exception |-> fails ]
  ELSE \* broadcast(event, data)
       IF broadcast.kind = "sync"
       THEN [ calls |-> << Call(broadcast, event, data) >>,
              exec |-> IF fails THEN "failed" ELSE "resolved",
              exception |-> fails ]
       ELSE [ calls |-> << Call(broadcast, event, data) >>,
              exec |-> "pending",
              exception |-> FALSE ]

HandlerOutcome(matched, looked_up, delegate, calls, exec, raised) ==
  [ matched |-> matched, looked_up |-> looked_up, delegate |-> delegate,
    calls |-> calls, exec |-> exec, raised |-> raised,
    result |-> IF raised THEN "none" ELSE "continue" ]

\* the handler without its try/except
_broadcast_handler_nocatch(event, data, fails) ==
  IF ~_matches_pattern(event)
  THEN HandlerOutcome(FALSE, FALSE, None, <<>>, "none", FALSE)
  ELSE LET broadcast == get_capability(capability_name)
       IN  IF broadcast = None
           THEN HandlerOutcome(TRUE, TRUE, None, <<>>, "none", FALSE)
           ELSE LET try == TryBroadcast(broadcast, event, data, fails)
                IN  HandlerOutcome(TRUE, TRUE, broadcast, try.calls, try.exec,
                                   try.exception)

\* the handler looking the delegate up under the default name
_broadcast_handler_default_name(event, data, fails) ==
  IF ~_matches_pattern(event)
  THEN HandlerOutcome(FALSE, FALSE, None, <<>>, "none", FALSE)
  ELSE LET broadcast == get_capability(DEFAULT_CAPABILITY)
       IN  IF broadcast = None
           THEN HandlerOutcome(TRUE, TRUE, None, <<>>, "none", FALSE)
           ELSE LET try == TryBroadcast(broadcast, event, data, fails)
                IN  HandlerOutcome(TRUE, TRUE, broadcast, try.calls, try.exec, FALSE)

\* the handler resolving the delegate before it tests the event name
_broadcast_handler_lookup_first(event, data, fails) ==
  LET broadcast == get_capability(capability_name)
  IN  IF ~_matches_pattern(event) \/ broadcast = None
      THEN HandlerOutcome(_matches_pattern(event), TRUE, None, <<>>, "none", FALSE)
      ELSE LET try == TryBroadcast(broadcast, event, data, fails)
           IN  HandlerOutcome(TRUE, TRUE, broadcast, try.calls, try.exec, FALSE)

_broadcast_handler(event, data, fails) ==
  IF ~_matches_pattern(event)
  THEN HandlerOutcome(FALSE, FALSE, None, <<>>, "none", FALSE)
  ELSE LET broadcast == get_capability(capability_name)
       IN  IF broadcast = None
           THEN HandlerOutcome(TRUE, TRUE, None, <<>>, "none", FALSE)
           ELSE LET try == TryBroadcast(broadcast, event, data, fails)
                IN  \* except Exception: logged, not re-raised
                    HandlerOutcome(TRUE, TRUE, broadcast, try.calls, try.exec, FALSE)

\* what n handler invocations with (event, data) add to `dispatched`
Dispatch(n, event, data) ==
  IF _matches_pattern(event) /\ get_capability(capability_name) # None
  THEN [ i \in 1..n |-> [ event |-> event, data |-> data ] ]
  ELSE <<>>

\* a direct call of the handler, as the tests make
CallHandler(event, data, fails) ==
  /\ Len(broadcast_calls) < MaxCalls
  /\ LET out == _broadcast_handler(event, data, fails)
     IN  /\ broadcast_calls' = broadcast_calls \o out.calls
         /\ dispatched' = dispatched \o Dispatch(1, event, data)
         /\ last' = [NoOp EXCEPT !.op = "handle", !.event = event, !.data = data,
                                 !.matched = out.matched, !.looked_up = out.looked_up,
                                 !.delegate = out.delegate, !.exec = out.exec,
                                 !.result = out.result, !.raised = out.raised,
                                 !.runs = 1]
  /\ UNCHANGED << relay_config, _unregister_funcs, registered_handlers,
                  capabilities, release_calls, leaked, starts >>

-----------------------------------------------------------------------------
(* Hook registry of the coordinator *)

HandlersFor(rh, event) == IF event \in DOMAIN rh THEN rh[event] ELSE <<>>

\* hooks.register(event, handler, priority, name): the registry afterwards
register(rh, event, handler, priority, name) ==
  LET entry == [ handler |-> handler, priority |-> priority, name |-> name ]
  IN  IF event \in DOMAIN rh
      THEN [rh EXCEPT ![event] = Append(@, entry)]
      ELSE rh @@ (event :> << entry >>)

\* calling the function register returned for `event`: the registry afterwards
release(rh, event) ==
  IF HandlersFor(rh, event) # <<>>
  THEN [rh EXCEPT ![event] = SubSeq(@, 1, Len(@) - 1)]
  ELSE rh

\* registrations in the registry, over all events
RECURSIVE CountAll(_, _)
CountAll(rh, names) ==
  IF names = {}
  THEN 0
  ELSE LET e == CHOOSE x \in names : TRUE
       IN  Len(rh[e]) + CountAll(rh, names \ {e})

ActiveRegistrations == CountAll(registered_handlers, DOMAIN registered_handlers)

-----------------------------------------------------------------------------
(* EventBroadcaster.register_handlers *)

\* prefix + suffix for each suffix, for the patterns from the i-th on
RECURSIVE ExpandPatterns(_)
ExpandPatterns(i) ==
  IF i > Len(event_patterns)
  THEN <<>>
  ELSE LET prefix == rstrip_star(event_patterns[i])
       IN  [ s \in 1..Len(WILDCARD_SUFFIXES) |-> prefix \o WILDCARD_SUFFIXES[s] ]
             \o ExpandPatterns(i + 1)

\* the two loops of register_handlers in the other order
ConcreteEvents_patterns_first == ExpandPatterns(1) \o exact_events

\* the event names register_handlers registers, in the order of its two loops
ConcreteEvents == exact_events \o ExpandPatterns(1)

\* A handle: the function register returned; id tells the handles apart.
Handle(id, event) == [ id |-> id, event |-> event ]

\* The register calls from the i-th name on; the fail_at-th call raises
\* (fail_at = 0: none does) and the exception leaves register_handlers.
RECURSIVE RegisterFrom(_, _, _, _, _)
RegisterFrom(i, names, fail_at, rh, funcs) ==
  IF i > Len(names)
  THEN [ registered_handlers |-> rh, _unregister_funcs |-> funcs, raised |-> FALSE ]
  ELSE IF i = fail_at
  THEN [ registered_handlers |-> rh, _unregister_funcs |-> funcs, raised |-> TRUE ]
  ELSE LET event == names[i]
           unregister == Handle(Len(release_calls) + i, event)
       IN  RegisterFrom(i + 1, names, fail_at,
                        register(rh, event, "_broadcast_handler", HOOK_PRIORITY,
                                 NAME_TAG \o event),
                        Append(funcs, unregister))

\* register_handlers that starts its list afresh instead of appending to it
register_handlers_reset(fail_at) ==
  RegisterFrom(1, ConcreteEvents, fail_at, registered_handlers, <<>>)

register_handlers(fail_at) ==
  RegisterFrom(1, ConcreteEvents, fail_at, registered_handlers, _unregister_funcs)

Start(fail_at) ==
  /\ starts < MaxStarts
  /\ LET out == register_handlers(fail_at)
         made == Len(out._unregister_funcs) - Len(_unregister_funcs)
     IN  /\ registered_handlers' = out.registered_handlers
         /\ _unregister_funcs' = out._unregister_funcs
         /\ release_calls' = release_calls \o [ k \in 1..made |-> 0 ]
         /\ last' = [NoOp EXCEPT !.op = "register", !.raised = out.raised,
                                 !.registered = made]
  /\ starts' = starts + 1
  /\ UNCHANGED << relay_config, capabilities, broadcast_calls, dispatched, leaked >>

-----------------------------------------------------------------------------
(* EventBroadcaster.unregister_handlers *)

\* the release loop without its try/except: the first release that raises ends it
RECURSIVE ReleaseFrom_nocatch(_, _, _, _, _)
ReleaseFrom_nocatch(i, rh, released, fails, kept) ==
  IF i > Len(_unregister_funcs)
  THEN [ registered_handlers |-> rh, released |-> released, raised |-> FALSE ]
  ELSE LET unregister == _unregister_funcs[i]
           after == IF unregister.id \in fails /\ unregister.id \in kept
                    THEN rh
                    ELSE release(rh, unregister.event)
       IN  IF unregister.id \in fails
           THEN [ registered_handlers |-> after,
                  released |-> Append(released, unregister.id), raised |-> TRUE ]
           ELSE ReleaseFrom_nocatch(i + 1, after, Append(released, unregister.id),
                                    fails, kept)

\* The loop from the i-th retained handle on: rh is the registry and released
\* the handles whose release was invoked so far. Releases of the handles in
\* `fails` raise; of those, the ones in `kept` leave their registration in place.
RECURSIVE ReleaseFrom(_, _, _, _, _)
ReleaseFrom(i, rh, released, fails, kept) ==
  IF i > Len(_unregister_funcs)
  THEN [ registered_handlers |-> rh, released |-> released, raised |-> FALSE ]
  ELSE LET unregister == _unregister_funcs[i]
           after == IF unregister.id \in fails /\ unregister.id \in kept
                    THEN rh
                    ELSE release(rh, unregister.event)
       IN  \* except Exception: logged, the loop goes on
           ReleaseFrom(i + 1, after, Append(released, unregister.id), fails, kept)

\* unregister_handlers that keeps the retained list
unregister_handlers_noclear(fails, kept) ==
  LET loop == ReleaseFrom(1, registered_handlers, <<>>, fails, kept)
  IN  [ registered_handlers |-> loop.registered_handlers,
        released |-> loop.released,
        _unregister_funcs |-> _unregister_funcs,
        raised |-> loop.raised ]

\* unregister_handlers whose loop starts at the second handle
unregister_handlers_skipfirst(fails, kept) ==
  LET loop == ReleaseFrom(2, registered_handlers, <<>>, fails, kept)
  IN  [ registered_handlers |-> loop.registered_handlers,
        released |-> loop.released,
        _unregister_funcs |-> IF loop.raised THEN _unregister_funcs ELSE <<>>,
        raised |-> loop.raised ]

\* unregister_handlers that clears the retained list before its loop
unregister_handlers_clearfirst(fails, kept) ==
  [ registered_handlers |-> registered_handlers,
    released |-> <<>>,
    _unregister_funcs |-> <<>>,
    raised |-> FALSE ]

unregister_handlers(fails, kept) ==
  LET loop == ReleaseFrom(1, registered_handlers, <<>>, fails, kept)
  IN  [ registered_handlers |-> loop.registered_handlers,
        released |-> loop.released,
        \* self._unregister_funcs.clear()
        _unregister_funcs |-> IF loop.raised THEN _unregister_funcs ELSE <<>>,
        raised |-> loop.raised ]

Times(x, seq) == Cardinality({ i \in 1..Len(seq) : seq[i] = x })

Stop(fails, kept) ==
  /\ LET out == unregister_handlers(fails, kept)
     IN  /\ registered_handlers' = out.registered_handlers
         /\ _unregister_funcs' = out._unregister_funcs
         /\ release_calls' = [ h \in 1..Len(release_calls) |->
                                 release_calls[h] + Times(h, out.released) ]
         /\ leaked' = leaked + Cardinality({ h \in kept : Times(h, out.released) > 0 })
         /\ last' = [NoOp EXCEPT !.op = "unregister", !.raised = out.raised,
                                 !.released = out.released,
                                 !.failed = { h \in fails : Times(h, out.released) > 0 }]
  /\ UNCHANGED << relay_config, capabilities, broadcast_calls, dispatched, starts >>

-----------------------------------------------------------------------------
(* The host emits an event: every handler registered for it runs *)

RECURSIVE RunHandlers(_, _, _, _)
RunHandlers(n, event, data, fails) ==
  IF n = 0
  THEN <<>>
  ELSE << _broadcast_handler(event, data, fails) >> \o RunHandlers(n - 1, event, data, fails)

RECURSIVE CallsOf(_)
CallsOf(outs) == IF outs = <<>> THEN <<>> ELSE Head(outs).calls \o CallsOf(Tail(outs))

Emit(event, data, fails) ==
  LET entries == HandlersFor(registered_handlers, event)
      outs == RunHandlers(Len(entries), event, data, fails)
  IN  /\ Len(broadcast_calls) + Len(entries) <= MaxCalls
      /\ broadcast_calls' = broadcast_calls \o CallsOf(outs)
      /\ dispatched' = dispatched \o Dispatch(Len(entries), event, data)
      /\ last' = [NoOp EXCEPT !.op = "emit", !.event = event, !.data = data,
                     !.matched = \E i \in 1..Len(outs) : outs[i].matched,
                     !.delegate = IF outs = <<>> THEN None ELSE outs[1].delegate,
                     !.exec = IF outs = <<>> THEN "none" ELSE outs[1].exec,
                     !.result = IF \E i \in 1..Len(outs) : outs[i].raised
                                THEN "none" ELSE "continue",
                     !.raised = \E i \in 1..Len(outs) : outs[i].raised,
                     !.runs = Len(outs)]
      /\ UNCHANGED << relay_config, _unregister_funcs, registered_handlers,
                      capabilities, release_calls, leaked, starts >>

-----------------------------------------------------------------------------
(* Specifications *)

\* _matches_pattern on every configuration
InitMatch == \E cfg \in Configs : Construct(cfg)

NextMatch == \E e \in EventNames : CallMatches(e)

SpecMatch == InitMatch /\ [][NextMatch]_vars

\* the handler called directly while capabilities come and go
HandlerConfigs ==
  { Cfg(TRUE, <<tool_star, session_start>>, FALSE, ""),
    Cfg(TRUE, <<test_event>>, TRUE, "my_broadcast") }

HandlerEvents == { tool_pre, session_start, test_event }

InitHandler == \E cfg \in HandlerConfigs : Construct(cfg)

NextHandler ==
  \/ \E n \in CapabilityNames, v \in Delegates \cup {None} : register_capability(n, v)
  \/ \E e \in HandlerEvents, d \in Payloads, f \in BOOLEAN : CallHandler(e, d, f)

SpecHandler == InitHandler /\ [][NextHandler]_vars

\* the relay's life: handlers registered and released, events emitted
LifeConfigs ==
  { Cfg(TRUE, <<tool_pre, tool_post>>, FALSE, ""),
    Cfg(TRUE, <<tool_star, tool_pre>>, FALSE, ""),
    Cfg(TRUE, <<>>, FALSE, ""),
    Cfg(TRUE, <<tool_pre, tool_pre>>, FALSE, ""),
    Cfg(TRUE, <<test_event>>, TRUE, "my_broadcast") }

LifeEvents == { tool_pre, test_event }

LifeDelegates == { None, Delegate(2, "async") }

Min(a, b) == IF a <= b THEN a ELSE b

\* the subsets of S with at most k elements
RECURSIVE SubsetsUpTo(_, _)
SubsetsUpTo(S, k) ==
  IF k = 0
  THEN { {} }
  ELSE LET smaller == SubsetsUpTo(S, k - 1)
       IN  smaller \cup { F \cup {x} : F \in smaller, x \in S }

\* the register call that raises: none (0) or one of the first MaxFailAt
FailPoints == 0..Min(Len(ConcreteEvents), MaxFailAt)

\* the releases that raise: at most MaxFail of the first MaxFailAt retained handles
FailSets ==
  SubsetsUpTo({ _unregister_funcs[i].id :
                  i \in 1..Min(Len(_unregister_funcs), MaxFailAt) }, MaxFail)

Init == \E cfg \in LifeConfigs : Construct(cfg)

Next ==
  \/ \E k \in FailPoints : Start(k)
  \/ \E F \in FailSets : \E K \in SUBSET F : Stop(F, K)
  \/ \E e \in LifeEvents, f \in BOOLEAN : Emit(e, <<>>, f)
  \/ \E v \in LifeDelegates : register_capability(capability_name, v)

Spec == Init /\ [][Next]_vars

\* registration on every configuration, then matching and emission; the host's
\* register raises nothing here
RegisterConfigs ==
  Configs \cup { Cfg(TRUE, <<tool_star, tool_x>>, FALSE, ""),
                 Cfg(TRUE, <<tool_star, a_star_star>>, FALSE, "") }

RegisterEvents == { tool_pre, tool_x, tool_colon }

InitRegister == \E cfg \in RegisterConfigs : Construct(cfg)

NextRegister ==
  \/ Start(0)
  \/ \E e \in EventNames : CallMatches(e)
  \/ \E e \in RegisterEvents : Emit(e, <<>>, FALSE)
  \/ register_capability(capability_name, Delegate(1, "sync"))

SpecRegister == InitRegister /\ [][NextRegister]_vars

-----------------------------------------------------------------------------
(* Vocabulary of the properties, stated on the configuration itself *)

Chars(s) == { s[i] : i \in 1..Len(s) }

\* E: the configured names without "*"
ExactNames == { events[i] : i \in { j \in 1..Len(events) : "*" \notin Chars(events[j]) } }

\* the configured strings with a "*"
WildcardPatterns ==
  { events[i] : i \in { j \in 1..Len(events) : "*" \in Chars(events[j]) } }

\* q is an initial segment of x
HasPrefix(x, q) == Len(q) <= Len(x) /\ \A i \in 1..Len(q) : x[i] = q[i]

\* pat without its trailing run of "*"
Stripped(pat) ==
  LET k == CHOOSE n \in 0..Len(pat) :
             /\ n = 0 \/ pat[n] # "*"
             /\ \A i \in (n + 1)..Len(pat) : pat[i] = "*"
  IN  [ i \in 1..k |-> pat[i] ]

\* the capability name the configuration asks for
ConfiguredName ==
  IF config.has_capability_name THEN config.capability_name ELSE "broadcast"

HandlerRan == last.op \in { "handle", "emit" }

-----------------------------------------------------------------------------
(* C1 *)

\* C1: every invocation of the handler returns "continue" and raises nothing,
\* whatever the event, whether or not a delegate is registered, and whether or
\* not the delegate's execution fails.
C1_AlwaysContinue ==
  HandlerRan => last.result = "continue" /\ ~last.raised

\* a handler invocation in which an awaited delegate failed
C1_Witness ==
  /\ last.op = "handle"
  /\ last.delegate.kind = "async"
  /\ last.exec = "failed"

-----------------------------------------------------------------------------
(* C2 *)

\* C2: a handler invocation with a matching event, while a delegate is registered
\* under the configured name, adds exactly one call to what the delegates have
\* received: that delegate, the same event name, the same payload.
C2_InvokedOnceUnchanged ==
  [][ ( /\ last'.op = "handle"
        /\ _matches_pattern(last'.event)
        /\ capabilities[capability_name] # None )
      => broadcast_calls' =
           Append(broadcast_calls,
                  [ delegate |-> capabilities[capability_name].id,
                    event |-> last'.event, data |-> last'.data ]) ]_vars

\* a matching event with a non-empty payload reached a registered delegate
C2_Witness ==
  /\ last.op = "handle"
  /\ last.matched
  /\ last.delegate # None
  /\ last.data # <<>>
  /\ broadcast_calls # <<>>

-----------------------------------------------------------------------------
(* C3 *)

-----------------------------------------------------------------------------
(* C4 *)

\* C4: no handle's release is ever invoked twice; when unregister_handlers() has
\* completed, the release of every handle register has returned so far has been
\* invoked exactly once; and unregister_handlers() on an empty retained list
\* invokes no release.
C4_ReleasedExactlyOnce ==
  [][ /\ \A h \in 1..Len(release_calls') : release_calls'[h] <= 1
      /\ last'.op = "unregister" =>
           \A h \in 1..Len(release_calls') : release_calls'[h] = 1
      /\ last'.op = "unregister" /\ _unregister_funcs = <<>> =>
           release_calls' = release_calls ]_vars

\* a second unregister_handlers(), after a second register_handlers(), released
\* the new handles and left the earlier ones at one release each
C4_Witness ==
  /\ last.op = "unregister"
  /\ starts = 2
  /\ last.released # <<>>
  /\ Len(release_calls) > Len(last.released)
  /\ \A h \in 1..Len(release_calls) : release_calls[h] = 1

-----------------------------------------------------------------------------
(* C5 *)

\* C5: with no delegate registered under the configured name, a handler invocation
\* returns "continue", invokes no delegate, and leaves the capability registry,
\* the hook registry and the retained list as they were.
C5_NoCapabilityNoEffect ==
  [][ ( /\ last'.op = "handle"
        /\ capabilities[ConfiguredName] = None )
      => /\ last'.result = "continue"
         /\ ~last'.raised
         /\ last'.exec = "none"
         /\ UNCHANGED << broadcast_calls, capabilities, registered_handlers,
                         _unregister_funcs >> ]_vars

\* a matching event handled while only another capability name holds a delegate
C5_Witness ==
  /\ last.op = "handle"
  /\ last.matched
  /\ last.looked_up
  /\ capabilities[ConfiguredName] = None
  /\ \E n \in CapabilityNames : capabilities[n] # None

-----------------------------------------------------------------------------
(* C6 *)

\* C6: whatever a handler invocation adds to the calls received is a call of the
\* delegate registered, at that moment, under the configured capability name
\* ("broadcast" unless configured); a matching event is never lost while one is.
C6_LateBinding ==
  [][ last'.op = "handle" =>
        /\ \A i \in (Len(broadcast_calls) + 1)..Len(broadcast_calls') :
             /\ capabilities[ConfiguredName] # None
             /\ broadcast_calls'[i].delegate = capabilities[ConfiguredName].id
        /\ ( last'.matched /\ capabilities[ConfiguredName] # None
               => Len(broadcast_calls') = Len(broadcast_calls) + 1 ) ]_vars

\* two matching events reached two different delegates: the one registered after
\* construction, then the one that replaced it
C6_Witness ==
  /\ last.op = "handle"
  /\ Len(broadcast_calls) = 2
  /\ broadcast_calls[1].delegate # broadcast_calls[2].delegate
  /\ broadcast_calls[2].delegate = capabilities[ConfiguredName].id
  /\ \E n \in CapabilityNames : n # ConfiguredName /\ capabilities[n] # None

-----------------------------------------------------------------------------
(* C7 *)

\* C7 as claimed: _matches_pattern(e) is true exactly when e is a configured
\* exact name.
C7_Original ==
  last.op = "matches" => (last.matched <=> last.event \in ExactNames)

\* C7, amended: _matches_pattern(e) is true exactly when e is a configured exact
\* name or e starts with a configured wildcard pattern stripped of its trailing
\* "*"; so it is true exactly when e is a configured exact name if no wildcard
\* pattern is configured.
C7_MatchesIffExactOrPrefix ==
  last.op = "matches" =>
    /\ last.matched <=>
         \/ last.event \in ExactNames
         \/ \E pat \in WildcardPatterns : HasPrefix(last.event, Stripped(pat))
    /\ WildcardPatterns = {} => (last.matched <=> last.event \in ExactNames)

\* an event that is no configured exact name matched through a wildcard pattern
C7_Witness ==
  /\ last.op = "matches"
  /\ last.matched
  /\ last.event \notin ExactNames
  /\ ExactNames # {}

-----------------------------------------------------------------------------
(* C8 *)

\* the configured patterns that end in "*", each without that last "*"
PrefixesClaimed ==
  { [ i \in 1..(Len(pat) - 1) |-> pat[i] ] :
      pat \in { q \in WildcardPatterns : q[Len(q)] = "*" } }

\* those of them that hold no further "*": the patterns of the plain form p*
PlainPrefixesClaimed == { pre \in PrefixesClaimed : "*" \notin Chars(pre) }

\* C8 as claimed: for every configured pattern p*, _matches_pattern(x) is true
\* when x starts with p and false when it does not.
C8_Original ==
  last.op = "matches" =>
    \A pre \in PlainPrefixesClaimed : last.matched <=> HasPrefix(last.event, pre)

\* C8, amended: for every configured pattern p*, _matches_pattern(x) is true
\* when x starts with p; it is false when x is no configured exact name and
\* starts with no configured pattern stripped of its trailing "*".
C8_PrefixMatches ==
  last.op = "matches" =>
    /\ \A pre \in PrefixesClaimed : HasPrefix(last.event, pre) => last.matched
    /\ ( /\ last.event \notin ExactNames
         /\ \A pat \in WildcardPatterns : ~HasPrefix(last.event, Stripped(pat)) )
       => ~last.matched

\* a pattern p* is configured, x lacks the prefix p and is not matched
C8_Witness ==
  /\ last.op = "matches"
  /\ ~last.matched
  /\ PrefixesClaimed # {}
  /\ \A pre \in PrefixesClaimed : ~HasPrefix(last.event, pre)
  /\ last.event # <<>>

-----------------------------------------------------------------------------
(* C9 *)

\* C9: the (event, payload) pairs the delegates have received are the matching
\* events dispatched while a delegate was registered: as many, in the same
\* order, each with its own event name and payload.
C9_ReceivedEqualsDispatched ==
  /\ Len(broadcast_calls) = Len(dispatched)
  /\ \A i \in 1..Len(dispatched) :
       /\ broadcast_calls[i].event = dispatched[i].event
       /\ broadcast_calls[i].data = dispatched[i].data

\* two dispatches differing in event name and in payload were received in order
C9_Witness ==
  /\ last.op = "handle"
  /\ Len(dispatched) = 2
  /\ dispatched[1].event # dispatched[2].event
  /\ dispatched[1].data # dispatched[2].data
  /\ broadcast_calls[2].event = last.event

-----------------------------------------------------------------------------
(* C10 *)

\* C10: unregister_handlers() invokes the release of every retained handle, in
\* order, whichever of them raise, and raises nothing itself.
C10_ReleasesAllDespiteFailures ==
  [][ last'.op = "unregister" =>
        /\ last'.released =
             [ i \in 1..Len(_unregister_funcs) |-> _unregister_funcs[i].id ]
        /\ ~last'.raised ]_vars

\* the release of the first retained handle raised and later ones were invoked
C10_Witness ==
  /\ last.op = "unregister"
  /\ Len(last.released) >= 2
  /\ last.released[1] \in last.failed

-----------------------------------------------------------------------------
(* C12 *)

\* e is no configured exact name and starts with no stripped wildcard pattern
NotMatching(e) ==
  /\ e \notin ExactNames
  /\ \A pat \in WildcardPatterns : ~HasPrefix(e, Stripped(pat))

\* C12: a handler invocation with an event name that does not match returns
\* "continue" without consulting the capability registry and without invoking
\* a delegate, whatever is registered.
C12_NoMatchNoLookup ==
  [][ ( last'.op = "handle" /\ NotMatching(last'.event) )
      => /\ last'.result = "continue"
         /\ ~last'.raised
         /\ ~last'.looked_up
         /\ last'.exec = "none"
         /\ broadcast_calls' = broadcast_calls ]_vars

\* a wildcard is configured, a delegate is registered under the configured name,
\* and an event outside the configuration was handled
C12_Witness ==
  /\ last.op = "handle"
  /\ NotMatching(last.event)
  /\ WildcardPatterns # {}
  /\ capabilities[ConfiguredName] # None

-----------------------------------------------------------------------------
(* C15 *)

\* C15 as claimed: whenever the handler has called a delegate, of whatever kind,
\* that execution has resolved or failed by the time the handler returns.
C15_Original ==
  ( last.op = "handle" /\ last.delegate # None )
    => last.exec \in { "resolved", "failed" }

-----------------------------------------------------------------------------
(* C16 *)

IsInitialSegment(s, longer) ==
  /\ Len(s) <= Len(longer)
  /\ \A i \in 1..Len(s) : longer[i] = s[i]

\* C16: no operation changes the configuration (the mapping, the event list, its
\* exact names and patterns, the capability name); the retained list is only
\* appended to by register_handlers() and emptied by unregister_handlers(), and
\* a handler invocation, whatever branch it takes, leaves it as it was.
C16_ConfigFixedListAppendClear ==
  [][ /\ relay_config' = relay_config
      /\ capability_name' = ConfiguredName
      /\ last'.op \in { "handle", "emit", "register_capability" } =>
           _unregister_funcs' = _unregister_funcs
      /\ last'.op = "register" =>
           IsInitialSegment(_unregister_funcs, _unregister_funcs')
      /\ last'.op = "unregister" => _unregister_funcs' = <<>> ]_vars

\* an emitted event ran the handler, which called a delegate, while handles
\* were retained
C16_Witness ==
  /\ last.op = "emit"
  /\ last.runs >= 1
  /\ last.delegate # None
  /\ _unregister_funcs # <<>>

-----------------------------------------------------------------------------
(* C17 *)

\* C17 as claimed: one register_handlers() leaves at most one registration per
\* event name, and one emission then runs the handler at most once.
C17_Original ==
  /\ ( last.op = "register" /\ starts = 1 ) =>
       \A e \in DOMAIN registered_handlers : Len(registered_handlers[e]) <= 1
  /\ ( last.op = "emit" /\ starts = 1 ) => last.runs <= 1

-----------------------------------------------------------------------------
(* C18 *)

\* the retained handles that were returned for event e
RetainedFor(e) ==
  Cardinality({ i \in 1..Len(_unregister_funcs) : _unregister_funcs[i].event = e })

RegisteredNames ==
  DOMAIN registered_handlers
    \cup { _unregister_funcs[i].event : i \in 1..Len(_unregister_funcs) }

-----------------------------------------------------------------------------
(* C19 *)

\* C19 as claimed: when a register call raises inside the first
\* register_handlers(), so that mount raises, no registration made before it
\* remains active.
C19_Original ==
  ( last.op = "register" /\ last.raised /\ starts = 1 ) => ActiveRegistrations = 0

-----------------------------------------------------------------------------
(* C11 *)

\* the seven suffixes, in the order the specification lists them
SevenSuffixes ==
  << <<"s","t","a","r","t">>,
     <<"d","e","l","t","a">>,
     <<"e","n","d">>,
     <<"p","r","e">>,
     <<"p","o","s","t">>,
     <<"e","r","r","o","r">>,
     <<"c","o","m","p","l","e","t","e">> >>

\* the configured exact names and wildcard patterns, in configuration order
ExactList == SelectSeq(events, LAMBDA x : "*" \notin Chars(x))

PatternList == SelectSeq(events, LAMBDA x : "*" \in Chars(x))

\* the names one start() is to register, in order: the exact names, then for
\* each pattern its prefix (the pattern without its trailing "*") + each suffix
ExpectedRegistrations ==
  ExactList \o
    [ i \in 1..(Len(SevenSuffixes) * Len(PatternList)) |->
        Stripped(PatternList[((i - 1) \div Len(SevenSuffixes)) + 1])
          \o SevenSuffixes[((i - 1) % Len(SevenSuffixes)) + 1] ]

ExpectedEntry(e) ==
  [ handler |-> "_broadcast_handler",
    priority |-> 1000,
    name |-> <<"e","v","e","n","t","-","b","r","o","a","d","c","a","s","t",":">> \o e ]

-----------------------------------------------------------------------------
(* C13 *)

EndsWith(x, s) ==
  /\ Len(s) <= Len(x)
  /\ \A i \in 1..Len(s) : x[Len(x) - Len(s) + i] = s[i]

\* x starts with the prefix of a configured wildcard pattern and ends in none
\* of the seven suffixes
MatchesWildcardOutsideSuffixes(x) ==
  /\ \E pat \in WildcardPatterns : HasPrefix(x, Stripped(pat))
  /\ \A s \in 1..Len(SevenSuffixes) : ~EndsWith(x, SevenSuffixes[s])

NeverDelivered(x) ==
  /\ HandlersFor(registered_handlers, x) = <<>>
  /\ ( last.op = "emit" /\ last.event = x ) => last.runs = 0
  /\ \A i \in 1..Len(broadcast_calls) : broadcast_calls[i].event # x

-----------------------------------------------------------------------------
(* C14 *)

\* the text before the first "*" of pat
BeforeFirstStar(pat) ==
  LET k == CHOOSE n \in 1..Len(pat) :
             /\ pat[n] = "*"
             /\ \A i \in 1..(n - 1) : pat[i] # "*"
  IN  [ i \in 1..(k - 1) |-> pat[i] ]

\* C14 as claimed: for every configured string with a "*", the prefix that
\* matches() tests and that start() expands is the text before its first "*".
C14_Original ==
  /\ last.op = "matches" =>
       last.matched
         = ( \/ last.event \in ExactNames
             \/ \E pat \in WildcardPatterns :
                  HasPrefix(last.event, BeforeFirstStar(pat)) )
  /\ ( last.op = "register" /\ starts = 1 /\ ~last.raised ) =>
       \A pat \in WildcardPatterns : \A s \in 1..Len(SevenSuffixes) :
         HandlersFor(registered_handlers, BeforeFirstStar(pat) \o SevenSuffixes[s]) # <<>>

====
